---- MODULE Spec2Model ----
(***************************************************************************)
(* Model of the compression-library benchmark harness (src/src/App.tsx,    *)
(* src/src/utils/libraries.ts).  The React component's state (payload,     *)
(* bestScore, benchmarkResults, isLoading), its event handlers and the     *)
(* asynchronous startComparison run are modelled as a state machine.       *)
(*                                                                         *)
(* Numbers.  Sizes are carried in bytes; a "size in KB" of the code is     *)
(* bytes/1024, so ratios of two KB sizes are ratios of the byte counts.    *)
(* Non-integer numbers (compressionRatio, sizeReduction) are exact         *)
(* fractions [num, den] in lowest terms.  Times are clock ticks of         *)
(* performance.now().                                                      *)
(***************************************************************************)
EXTENDS Integers, Sequences, FiniteSets, TLC

VARIABLES
    payload,           \* useState payload        (App.tsx:96)
    bestScore,         \* useState bestScore      (App.tsx:97)
    benchmarkResults,  \* useState results        (App.tsx:98)
    isLoading,         \* useState isLoading      (App.tsx:99)
    runs,              \* startComparison invocations suspended at an await
    reads,             \* the files that a FileReader is reading
    now,               \* performance.now(), in ticks
    step,              \* the last step taken: its handler, and what it showed
                       \* with alert() and logged with console.error
    faults,            \* which adapter operation raises (fault scenario)
    env                \* the environment: how handlers are called, which files
                       \* the user has

vars == <<payload, bestScore, benchmarkResults, isLoading, runs, reads, now,
          step, faults, env>>

-----------------------------------------------------------------------------
(* Bounds of the model *)

MaxClock == 1        \* performance.now() stops advancing at this tick
MaxInFlight == 2     \* startComparison invocations suspended at the same time
MaxReading == 1      \* files a FileReader is reading at the same time

-----------------------------------------------------------------------------
(* Exact fractions *)

RECURSIVE Gcd(_, _)
Gcd(a, b) == IF b = 0 THEN a ELSE Gcd(b, a % b)

Abs(n) == IF n < 0 THEN -n ELSE n

\* n/d in lowest terms, d > 0
Frac(n, d) ==
    LET g == Gcd(Abs(n), d)
    IN  IF n = 0 THEN [num |-> 0, den |-> 1]
        ELSE [num |-> n \div g, den |-> d \div g]

Zero == [num |-> 0, den |-> 1]

FracLess(a, b) == a.num * b.den < b.num * a.den

-----------------------------------------------------------------------------
(* JavaScript values the harness handles.  kind is the runtime type; size  *)
(* is the value's own length (UTF-8 length of a string, byte length of a   *)
(* Uint8Array); jsonSize is the UTF-8 length of JSON.stringify(value).     *)

JSValue(kind, id, size, jsonSize) ==
    [kind |-> kind, id |-> id, size |-> size, jsonSize |-> jsonSize]

Undefined == JSValue("undefined", "undefined", 0, 0)

\* the built-in 1 MB sample: 1280 KB of JSON text
payloadContent == JSValue("object", "payloadContent", 0, 1310720)

\* !value of JavaScript: undefined, null, false, 0 and "" are falsy
Falsy(v) ==
    \/ v.kind \in {"undefined", "null"}
    \/ v.kind = "boolean" /\ v.id = "false"
    \/ v.kind = "number" /\ v.id = "0"
    \/ v.kind = "string" /\ v.size = 0

-----------------------------------------------------------------------------
(* Files the user can select.  A name is its stem and its suffix, so that  *)
(* file.name.endsWith('.json') is a test of the suffix.  A text is its     *)
(* content, its UTF-8 length and the number of characters JSON.stringify   *)
(* escapes in it.                                                          *)

Text(id, size, escapes) == [id |-> id, size |-> size, escapes |-> escapes]

SmallJsonText == Text("{\"a\":1,\"b\":[1,2,3]}", 19, 4)
HelloText == Text("hello world", 11, 0)
NullText == Text("null", 4, 0)
QuotedText == Text("\"a\"", 3, 2)
EmptyObjectText == Text("{}", 2, 0)

File(stem, suffix, text) == [stem |-> stem, suffix |-> suffix, text |-> text]

NotesFile == File("notes", ".txt", HelloText)

Files ==
    { File("small", ".json", SmallJsonText),
      File("broken", ".json", HelloText),
      File("null", ".json", NullText),
      File("quoted", ".json", QuotedText),
      File("data", ".txt", SmallJsonText),
      File("empty", ".json", EmptyObjectText),
      NotesFile }

EndsWithJson(file) == file.suffix = ".json"

\* JSON.parse(text): [ok |-> FALSE] stands for the SyntaxError it throws
JSONParse(text) ==
    CASE text.id = "{\"a\":1,\"b\":[1,2,3]}" ->
            [ok |-> TRUE, value |-> JSValue("object", text.id, 0, 19)]
      [] text.id = "null" ->
            [ok |-> TRUE, value |-> JSValue("null", "null", 0, 4)]
      [] text.id = "\"a\"" ->
            [ok |-> TRUE, value |-> JSValue("string", "a", 1, 3)]
      [] text.id = "{}" ->
            [ok |-> TRUE, value |-> JSValue("object", "{}", 0, 2)]
      [] OTHER -> [ok |-> FALSE, value |-> Undefined]

\* the object literal { content }: its JSON text is {"content":"<escaped text>"}
ContentObject(text) ==
    JSValue("object", "{content:" \o text.id \o "}", 0,
            12 + text.size + text.escapes + 2)

-----------------------------------------------------------------------------
(* Size utilities *)

\* getSizeInKB(input): the byte size of input, divided by 1024 by the code;
\* here the byte count itself
getSizeInKB(input) ==
    CASE input.kind = "string" -> input.size
      [] input.kind = "bytes" -> input.size
      [] OTHER -> input.jsonSize

\* Number.prototype.toFixed(1) of n/d, in tenths: the nearest tenth, the
\* larger one on a tie
ToFixed1(n, d) == (20 * n + d) \div (2 * d)

\* a formatted size "<tenths/10> <unit>"; decimals is the number of digits
\* after the point that the string shows
SizeString(tenths, decimals, unit) ==
    [tenths |-> tenths, decimals |-> decimals, unit |-> unit]

\* getFormattedSize(sizeInKB), for a size given in bytes
getFormattedSize(bytes) ==
    IF bytes < 1024 * 1024
    THEN SizeString(ToFixed1(bytes, 1024), 1, "KB")
    ELSE SizeString(ToFixed1(bytes, 1024 * 1024), 1, "MB")

\* a getByteSizeKB that switches to MB only above 1 MB
getByteSizeKBAboveOne(input) ==
    LET bytes == CASE input.kind = "string" -> input.size
                   [] input.kind = "bytes" -> input.size
                   [] OTHER -> input.jsonSize
    IN  IF bytes > 1024 * 1024
        THEN SizeString(ToFixed1(bytes, 1024 * 1024), 1, "MB")
        ELSE SizeString(ToFixed1(bytes, 1024), 1, "KB")

\* a getByteSizeKB without the branch for strings: a string is measured by
\* its JSON text, like any other object
getByteSizeKBOfJson(input) ==
    LET bytes == CASE input.kind = "bytes" -> input.size
                   [] OTHER -> input.jsonSize
    IN  IF bytes >= 1024 * 1024
        THEN SizeString(ToFixed1(bytes, 1024 * 1024), 1, "MB")
        ELSE SizeString(ToFixed1(bytes, 1024), 1, "KB")

\* getByteSizeKB(input) of utils.ts: the byte size of input, formatted
getByteSizeKB(input) ==
    LET bytes == CASE input.kind = "string" -> input.size
                   [] input.kind = "bytes" -> input.size
                   [] OTHER -> input.jsonSize
    IN  IF bytes >= 1024 * 1024
        THEN SizeString(ToFixed1(bytes, 1024 * 1024), 1, "MB")
        ELSE SizeString(ToFixed1(bytes, 1024), 1, "KB")

\* calculateCompressionRatio(payload, compressedSizeInKB), compressed in bytes
calculateCompressionRatio(original, compressed) ==
    IF compressed = 0 THEN Zero ELSE Frac(getSizeInKB(original), compressed)

-----------------------------------------------------------------------------
(* The library registry and the adapters *)

compressionLibraries ==
    << [name |-> "FFLATE", link |-> "https://www.npmjs.com/package/fflate"],
       [name |-> "Pako", link |-> "https://www.npmjs.com/package/pako"],
       [name |-> "LZString", link |-> "https://www.npmjs.com/package/lz-string"],
       [name |-> "CBOR", link |-> "https://www.npmjs.com/package/cbor2"],
       [name |-> "MessagePack", link |-> "https://www.npmjs.com/package/messagepack"] >>

TLibraryName == { compressionLibraries[k].name : k \in DOMAIN compressionLibraries }

\* what an adapter operation does in a fault scenario
Outcomes == {"ok", "encodeThrows", "decodeThrows"}

\* The length of the wrapped library's output for a JSON text of n bytes.
\* The libraries are external; these lengths stand for theirs: gzip adds a
\* header and a trailer, so a tiny input grows, and the binary serializers
\* save a fixed share of the text.
EncodedSize(name, n) ==
    CASE name = "FFLATE" -> IF n < 1024 THEN n + 20 ELSE n \div 5
      [] name = "Pako" -> IF n < 1024 THEN n + 20 ELSE n \div 4
      [] name = "LZString" -> IF n < 1024 THEN n + 6 ELSE n \div 2
      [] name = "CBOR" -> n - n \div 10
      [] name = "MessagePack" -> n - n \div 5

\* a Uint8Array holding `data` in the format of library `name`
Uint8Array(name, data, size) ==
    [kind |-> "bytes", id |-> name, size |-> size, jsonSize |-> 0, data |-> data]

\* the error an adapter call raises
Thrown == JSValue("error", "Error", 0, 0)

\* the string a conversion yields from input that is not in its format
Garbled(size) == JSValue("string", "garbled", size, size + 2)

\* JSON.stringify(value): the JSON text of value, a string
JSONStringify(value) ==
    [kind |-> "string", id |-> "JSON", size |-> value.jsonSize,
     jsonSize |-> value.jsonSize + 2, data |-> value]

\* JSON.parse(str) in the adapters: the value of a JSON text; a SyntaxError
\* for anything else
JSONParseString(str) ==
    IF str.kind = "string" /\ str.id = "JSON" THEN str.data ELSE Thrown

\* new TextEncoder().encode(str) and new TextDecoder().decode(bytes)
TextEncode(str) == Uint8Array("utf8", str, str.size)

TextDecode(bytes) ==
    IF bytes.kind = "bytes" /\ bytes.id = "utf8" THEN bytes.data
    ELSE Garbled(bytes.size)

\* pako: gzip(input) takes a string (encoded as UTF-8) or bytes;
\* ungzip(data, { to: "string" }) returns the text
gzip(input) ==
    Uint8Array("gzip", IF input.kind = "string" THEN TextEncode(input) ELSE input,
               EncodedSize("Pako", input.size))

ungzipToString(data) ==
    IF data.kind = "bytes" /\ data.id = "gzip" THEN TextDecode(data.data) ELSE Thrown

\* fflate: gzipSync(bytes) and gunzipSync(data), bytes to bytes
gzipSync(bytes) == Uint8Array("gzip", bytes, EncodedSize("FFLATE", bytes.size))

gunzipSync(data) ==
    IF data.kind = "bytes" /\ data.id = "gzip" THEN data.data ELSE Thrown

\* lz-string: compressToUint8Array(str) and decompressFromUint8Array(data)
compressToUint8Array(str) ==
    Uint8Array("lz-string", str, EncodedSize("LZString", str.size))

decompressFromUint8Array(data) ==
    IF data.kind = "bytes" /\ data.id = "lz-string" THEN data.data
    ELSE Garbled(data.size)

\* cbor2: encode(value) and decode(data)
encodeCbor(value) == Uint8Array("cbor", value, EncodedSize("CBOR", value.jsonSize))

decodeCbor(data) ==
    IF data.kind = "bytes" /\ data.id = "cbor" THEN data.data ELSE Thrown

\* messagepack: encode(value) and decode(data)
encodeMsgPack(value) ==
    Uint8Array("msgpack", value, EncodedSize("MessagePack", value.jsonSize))

decodeMsgPack(data) ==
    IF data.kind = "bytes" /\ data.id = "msgpack" THEN data.data ELSE Thrown

\* an error raised inside an adapter leaves it
Try(value, Rest(_)) == IF value.kind = "error" THEN Thrown ELSE Rest(value)

pakoEncode(object) == gzip(JSONStringify(object))

\* a pakoDecode that leaves out { to: "string" }
pakoDecodeBinary(data) ==
    Try(IF data.kind = "bytes" /\ data.id = "gzip" THEN data.data ELSE Thrown,
        JSONParseString)

pakoDecode(data) == Try(ungzipToString(data), JSONParseString)

cborEncode(object) == encodeCbor(object)

cborDecode(data) == decodeCbor(data)

msgpackEncode(object) == encodeMsgPack(object)

\* new Uint8Array(data) copies the bytes
msgpackDecode(data) == decodeMsgPack(data)

lzStringEncode(object) == compressToUint8Array(JSONStringify(object))

\* JSON.parse(decompressedStr || '{}'): an empty or null string is read
\* as the text {}
lzStringDecode(data) ==
    LET decompressedStr == decompressFromUint8Array(data)
    IN  IF Falsy(decompressedStr) THEN JSONParse(EmptyObjectText).value
        ELSE JSONParseString(decompressedStr)

fflateEncode(object) == gzipSync(TextEncode(JSONStringify(object)))

\* an fflateDecode with a try block of its own, which returns {} on an error
fflateDecodeCatches(data) ==
    LET result == Try(gunzipSync(data),
                      LAMBDA bytes : JSONParseString(TextDecode(bytes)))
    IN  IF result.kind = "error" THEN JSONParse(EmptyObjectText).value ELSE result

fflateDecode(data) ==
    Try(gunzipSync(data), LAMBDA bytes : JSONParseString(TextDecode(bytes)))

\* libraryMap[name].encode(data)
Encode(name, data) ==
    CASE name = "FFLATE" -> fflateEncode(data)
      [] name = "Pako" -> pakoEncode(data)
      [] name = "LZString" -> lzStringEncode(data)
      [] name = "CBOR" -> cborEncode(data)
      [] name = "MessagePack" -> msgpackEncode(data)

\* libraryMap[name].decode(bytes)
Decode(name, bytes) ==
    CASE name = "FFLATE" -> fflateDecode(bytes)
      [] name = "Pako" -> pakoDecode(bytes)
      [] name = "LZString" -> lzStringDecode(bytes)
      [] name = "CBOR" -> cborDecode(bytes)
      [] name = "MessagePack" -> msgpackDecode(bytes)

-----------------------------------------------------------------------------
(* Benchmark results *)

Infinity == 2147483647

\* a try block that passes the adapter's output, not the payload, to
\* calculateCompressionRatio
PopulatedRowRatioOfOutput(lib, original, encoded, encodeTime, decodeTime) ==
    LET originalSize == getSizeInKB(original)
        compressedSize == getSizeInKB(encoded)
    IN  [ name |-> lib.name,
          link |-> lib.link,
          originalSize |-> getFormattedSize(originalSize),
          compressedSize |-> getFormattedSize(compressedSize),
          encodeTime |-> encodeTime,
          decodeTime |-> decodeTime,
          totalTime |-> encodeTime + decodeTime,
          compressionRatio |-> calculateCompressionRatio(encoded, compressedSize),
          sizeReduction |-> Frac(100 * (originalSize - compressedSize), originalSize) ]

\* the row pushed by the try block
PopulatedRow(lib, original, encoded, encodeTime, decodeTime) ==
    LET originalSize == getSizeInKB(original)
        compressedSize == getSizeInKB(encoded)
    IN  [ name |-> lib.name,
          link |-> lib.link,
          originalSize |-> getFormattedSize(originalSize),
          compressedSize |-> getFormattedSize(compressedSize),
          encodeTime |-> encodeTime,
          decodeTime |-> decodeTime,
          totalTime |-> encodeTime + decodeTime,
          compressionRatio |-> calculateCompressionRatio(original, compressedSize),
          sizeReduction |-> Frac(100 * (originalSize - compressedSize), originalSize) ]

\* a failure row whose sizes are formatted like measured ones ("0.0 KB")
ZeroRowFormatted(lib) ==
    [ name |-> lib.name,
      link |-> lib.link,
      originalSize |-> getFormattedSize(0),
      compressedSize |-> getFormattedSize(0),
      encodeTime |-> 0,
      decodeTime |-> 0,
      totalTime |-> 0,
      compressionRatio |-> Zero,
      sizeReduction |-> Zero ]

\* the row pushed by the catch block
ZeroRow(lib) ==
    [ name |-> lib.name,
      link |-> lib.link,
      originalSize |-> SizeString(0, 0, "KB"),
      compressedSize |-> SizeString(0, 0, "KB"),
      encodeTime |-> 0,
      decodeTime |-> 0,
      totalTime |-> 0,
      compressionRatio |-> Zero,
      sizeReduction |-> Zero ]

\* parseFloat of a size string, in tenths; parseFloat('Infinity') is Infinity
ParseFloat(s) == IF s.unit = "Infinity" THEN Infinity ELSE s.tenths

BestSeed ==
    [ compressedSize |-> SizeString(0, 0, "Infinity"),
      encodeTime |-> Infinity,
      decodeTime |-> Infinity,
      totalTime |-> Infinity,
      compressionRatio |-> Zero,
      sizeReduction |-> Zero ]

\* a reduce callback that keeps one winning row, the one of least totalTime
BestStepSingleWinner(best, current) ==
    IF current.totalTime < best.totalTime
    THEN [ compressedSize |-> current.compressedSize,
           encodeTime |-> current.encodeTime,
           decodeTime |-> current.decodeTime,
           totalTime |-> current.totalTime,
           compressionRatio |-> current.compressionRatio,
           sizeReduction |-> current.sizeReduction ]
    ELSE best

\* one step of the reduce callback
BestStep(best, current) ==
    [ compressedSize |->
          IF ParseFloat(current.compressedSize) < ParseFloat(best.compressedSize)
          THEN current.compressedSize ELSE best.compressedSize,
      encodeTime |->
          IF current.encodeTime < best.encodeTime
          THEN current.encodeTime ELSE best.encodeTime,
      decodeTime |->
          IF current.decodeTime < best.decodeTime
          THEN current.decodeTime ELSE best.decodeTime,
      totalTime |->
          IF current.totalTime < best.totalTime
          THEN current.totalTime ELSE best.totalTime,
      compressionRatio |->
          IF FracLess(best.compressionRatio, current.compressionRatio)
          THEN current.compressionRatio ELSE best.compressionRatio,
      sizeReduction |->
          IF FracLess(best.sizeReduction, current.sizeReduction)
          THEN current.sizeReduction ELSE best.sizeReduction ]

\* results.reduce(callback, seed); the accumulator is computed once per row
RECURSIVE Reduce(_, _)
Reduce(results, best) ==
    IF results = <<>> THEN best
    ELSE CHOOSE out \in { Reduce(Tail(results), next) :
                              next \in {BestStep(best, Head(results))} } : TRUE

NewBestScore(results) == Reduce(results, BestSeed)

NoBestScore == [kind |-> "undefined"]

-----------------------------------------------------------------------------
(* The state machine *)

NoPayloadNotice == "Please load a payload first."
ParseErrorNotice == "Error parsing JSON file. Please ensure it is valid JSON."

Step(handler, shown, logged) ==
    [handler |-> handler, alert |-> shown, error |-> logged]

\* a Start button whose disabled attribute forgets isLoading
StartDisabledIgnoresLoading == Falsy(payload)

\* the disabled attributes of the two buttons
StartDisabled == isLoading \/ Falsy(payload)
ResetDisabled == Falsy(payload)

\* The event loop can take a new task: with synchronous adapters the loop of
\* startComparison runs from the timer to the commit within one task (an
\* await of a plain value resumes in a microtask), so no event handler, timer
\* or reader callback runs between two adapter calls.
CanDispatch ==
    env.async \/ \A r \in DOMAIN runs : runs[r].pc = "delay"

Remove(seq, k) == SubSeq(seq, 1, k - 1) \o SubSeq(seq, k + 1, Len(seq))

Event(ev, op, i, arg) == [ev |-> ev, op |-> op, i |-> i, arg |-> arg]

\* the fault scenarios in which at most n adapters raise
FaultScenarios(n) ==
    { f \in [TLibraryName -> Outcomes] :
          Cardinality({ name \in TLibraryName : f[name] # "ok" }) <= n }

InitState ==
    /\ payload = Undefined
    /\ bestScore = NoBestScore
    /\ benchmarkResults = <<>>
    /\ isLoading = FALSE
    /\ runs = <<>>
    /\ reads = {}
    /\ now = 0
    /\ step = Step("mount", "", "")

\* direct: handlers are called whatever the buttons show (FALSE: a handler
\* runs only when its button is enabled); async: the adapters return promises
\* (FALSE: they return their value, as the five registered ones do);
\* files: the files the user selects; clock: the tick at which
\* performance.now() stops advancing
Env(direct, async, files, clock) ==
    [direct |-> direct, async |-> async, files |-> files, clock |-> clock]

\* the application as the user drives it, whatever the adapters return, in
\* the scenarios where at most one adapter raises
Init ==
    /\ InitState
    /\ faults \in FaultScenarios(1)
    /\ env = Env(FALSE, TRUE, {NotesFile}, MaxClock)

\* the application with the five registered adapters, in every fault
\* scenario, with a clock of one tick
InitFaults ==
    /\ InitState
    /\ faults \in FaultScenarios(Len(compressionLibraries))
    /\ env = Env(FALSE, FALSE, {NotesFile}, 1)

\* the handlers called directly, with adapters that do not raise
InitDirect ==
    /\ InitState
    /\ faults \in FaultScenarios(0)
    /\ env = Env(TRUE, FALSE, {NotesFile}, MaxClock)

\* the application as the user drives it, with every file of Files and the
\* five registered adapters, none of which raises, with a clock of one tick
InitFiles ==
    /\ InitState
    /\ faults \in FaultScenarios(0)
    /\ env = Env(FALSE, FALSE, Files, 1)

\* the application as the user drives it, in the scenarios where at most
\* two adapters fail in decode: by raising, or by yielding another value
\* than the one encoded
InitLossy ==
    /\ InitState
    /\ faults \in { f \in [TLibraryName -> {"ok", "decodeThrows", "decodeDiffers"}] :
                       Cardinality({ name \in TLibraryName : f[name] # "ok" }) <= 2 }
    /\ env = Env(FALSE, FALSE, {NotesFile}, 1)

loadDefaultPayload ==
    /\ CanDispatch
    /\ payload' = payloadContent
    /\ step' = Step("loadDefaultPayload", "", "")
    /\ UNCHANGED <<bestScore, benchmarkResults, isLoading, runs, reads, now,
                   faults, env>>

\* the user picks `file` in the dialog; onchange starts reading it
uploadCustomPayload(file) ==
    /\ CanDispatch
    /\ Cardinality(reads \cup {file}) <= MaxReading
    /\ reads' = reads \cup {file}
    /\ step' = Step("uploadCustomPayload", "", "")
    /\ UNCHANGED <<payload, bestScore, benchmarkResults, isLoading, runs, now,
                   faults, env>>

\* a reader.onload that parses every text that is valid JSON, whatever the
\* file's name
readerOnloadSniffs(file) ==
    LET parsed == JSONParse(file.text)
    IN  /\ CanDispatch
        /\ reads' = reads \ {file}
        /\ IF parsed.ok
           THEN /\ payload' = parsed.value
                /\ step' = Step("readerOnload", "", "")
           ELSE /\ payload' = ContentObject(file.text)
                /\ step' = Step("readerOnload", "", "")
        /\ UNCHANGED <<bestScore, benchmarkResults, isLoading, runs, now,
                       faults, env>>

\* a reader.onload whose catch block also drops the payload
readerOnloadClearsOnError(file) ==
    LET parsed == JSONParse(file.text)
    IN  /\ CanDispatch
        /\ reads' = reads \ {file}
        /\ IF EndsWithJson(file)
           THEN IF parsed.ok
                THEN /\ payload' = parsed.value
                     /\ step' = Step("readerOnload", "", "")
                ELSE /\ payload' = Undefined
                     /\ step' = Step("readerOnload", ParseErrorNotice, "")
           ELSE /\ payload' = ContentObject(file.text)
                /\ step' = Step("readerOnload", "", "")
        /\ UNCHANGED <<bestScore, benchmarkResults, isLoading, runs, now,
                       faults, env>>

\* reader.onload of the read of `file`
readerOnload(file) ==
    LET parsed == JSONParse(file.text)
    IN  /\ CanDispatch
        /\ reads' = reads \ {file}
        /\ IF EndsWithJson(file)
           THEN IF parsed.ok
                THEN /\ payload' = parsed.value
                     /\ step' = Step("readerOnload", "", "")
                ELSE /\ payload' = payload
                     /\ step' = Step("readerOnload", ParseErrorNotice, "")
           ELSE /\ payload' = ContentObject(file.text)
                /\ step' = Step("readerOnload", "", "")
        /\ UNCHANGED <<bestScore, benchmarkResults, isLoading, runs, now,
                       faults, env>>

\* a reset that forgets setBenchmarkResults([])
resetPayloadKeepsResults ==
    /\ CanDispatch
    /\ env.direct \/ ~Falsy(payload)
    /\ payload' = Undefined
    /\ step' = Step("resetPayload", "", "")
    /\ UNCHANGED <<bestScore, benchmarkResults, isLoading, runs, reads, now, faults, env>>

\* a reset that also aborts the reads in progress
resetPayloadAbortsReads ==
    /\ CanDispatch
    /\ env.direct \/ ~ResetDisabled
    /\ payload' = Undefined
    /\ benchmarkResults' = <<>>
    /\ reads' = {}
    /\ step' = Step("resetPayload", "", "")
    /\ UNCHANGED <<bestScore, isLoading, runs, now, faults, env>>

resetPayload ==
    /\ CanDispatch
    /\ env.direct \/ ~ResetDisabled
    /\ payload' = Undefined
    /\ benchmarkResults' = <<>>
    /\ step' = Step("resetPayload", "", "")
    /\ UNCHANGED <<bestScore, isLoading, runs, reads, now, faults, env>>

\* the invocation of startComparison up to its first await
NewRun(p) ==
    [ payload |-> p, pc |-> "delay", i |-> 0, results |-> <<>>,
      startEncode |-> 0, encodeTime |-> 0, startDecode |-> 0,
      encoded |-> Undefined, calls |-> <<>> ]

\* a startComparison without the early return
startComparisonUnguarded ==
    /\ CanDispatch
    /\ env.direct \/ ~(isLoading \/ Falsy(payload))
    /\ Len(runs) < MaxInFlight
    /\ isLoading' = TRUE
    /\ runs' = Append(runs, NewRun(payload))
    /\ step' = Step("startComparison", "", "")
    /\ UNCHANGED <<payload, bestScore, benchmarkResults, reads, now, faults, env>>

startComparison ==
    /\ CanDispatch
    /\ env.direct \/ ~StartDisabled
    /\ IF Falsy(payload)
       THEN /\ step' = Step("startComparison", NoPayloadNotice, "")
            /\ UNCHANGED <<isLoading, runs>>
       ELSE /\ Len(runs) < MaxInFlight
            /\ isLoading' = TRUE
            /\ runs' = Append(runs, NewRun(payload))
            /\ step' = Step("startComparison", "", "")
    /\ UNCHANGED <<payload, bestScore, benchmarkResults, reads, now, faults, env>>

\* a loop that reads the payload of the current state, not the one its
\* invocation captured
BeginEncodeStatePayload(run, i) ==
    [run EXCEPT !.pc = "encode", !.i = i, !.startEncode = now,
                !.payload = payload,
                !.calls = Append(@, Event("call", "encode", i, payload))]

\* the loop reaches library i: startEncode is taken and encode(payload) called
BeginEncode(run, i) ==
    [run EXCEPT !.pc = "encode", !.i = i, !.startEncode = now,
                !.calls = Append(@, Event("call", "encode", i, run.payload))]

\* a commit that forgets setBestScore(newBestScore)
ContinueKeepsBestScore(r, pushed) ==
    \E run \in {pushed} :
        IF run.i < Len(compressionLibraries)
        THEN /\ runs' = [runs EXCEPT ![r] = BeginEncode(run, run.i + 1)]
             /\ UNCHANGED <<isLoading, bestScore, benchmarkResults>>
        ELSE /\ runs' = Remove(runs, r)
             /\ isLoading' = FALSE
             /\ bestScore' = bestScore
             /\ benchmarkResults' = run.results

\* a commit that forgets setIsLoading(false)
ContinueKeepsLoading(r, pushed) ==
    \E run \in {pushed} :
        IF run.i < Len(compressionLibraries)
        THEN /\ runs' = [runs EXCEPT ![r] = BeginEncode(run, run.i + 1)]
             /\ UNCHANGED <<isLoading, bestScore, benchmarkResults>>
        ELSE /\ runs' = Remove(runs, r)
             /\ isLoading' = isLoading
             /\ bestScore' = NewBestScore(run.results)
             /\ benchmarkResults' = run.results

\* the loop after a row was pushed for library run.i: the next library, or
\* the reduce and the three state updates
Continue(r, pushed) ==
    \E run \in {pushed} :
        IF run.i < Len(compressionLibraries)
        THEN /\ runs' = [runs EXCEPT ![r] = BeginEncode(run, run.i + 1)]
             /\ UNCHANGED <<isLoading, bestScore, benchmarkResults>>
        ELSE /\ runs' = Remove(runs, r)
             /\ isLoading' = FALSE
             /\ bestScore' = NewBestScore(run.results)
             /\ benchmarkResults' = run.results

\* a catch block that logs the error and pushes no row
CatchPushesNothing(r, run, op) ==
    LET lib == compressionLibraries[run.i]
    IN  /\ step' = Step(op \o "Settled", "", lib.name)
        /\ Continue(r, [run EXCEPT
               !.calls = Append(@, Event("throw", op, run.i, Undefined))])

\* a try block that covers the encode call only: decode is called all the same
CatchThenDecode(r, run, op) ==
    LET lib == compressionLibraries[run.i]
    IN  /\ step' = Step(op \o "Settled", "", lib.name)
        /\ IF op = "encode"
           THEN /\ runs' = [runs EXCEPT ![r] =
                       [run EXCEPT !.pc = "decode",
                                   !.startDecode = now,
                                   !.calls = @ \o << Event("throw", op, run.i, Undefined),
                                                     Event("call", "decode", run.i, run.encoded) >>]]
                /\ UNCHANGED <<isLoading, bestScore, benchmarkResults>>
           ELSE Continue(r, [run EXCEPT !.results = Append(@, ZeroRow(lib)),
                                        !.calls = Append(@, Event("throw", op, run.i, Undefined))])

\* no catch block: the error leaves startComparison, which never commits
CatchAborts(r, run, op) ==
    /\ step' = Step(op \o "Settled", "", "")
    /\ runs' = Remove(runs, r)
    /\ UNCHANGED <<isLoading, bestScore, benchmarkResults>>

\* the catch block for library run.i
Catch(r, run, op) ==
    LET lib == compressionLibraries[run.i]
    IN  /\ step' = Step(op \o "Settled", "", lib.name)
        /\ Continue(r, [run EXCEPT !.results = Append(@, ZeroRow(lib)),
                                   !.calls = Append(@, Event("throw", op, run.i, Undefined))])

\* the 50 ms timer fires: results = [] and the loop starts
afterDelay(r) ==
    /\ CanDispatch
    /\ runs[r].pc = "delay"
    /\ runs' = [runs EXCEPT ![r] = BeginEncode([runs[r] EXCEPT !.results = <<>>], 1)]
    /\ step' = Step("afterDelay", "", "")
    /\ UNCHANGED <<payload, bestScore, benchmarkResults, isLoading, reads, now,
                   faults, env>>

\* a loop that takes one timestamp per library: decode is timed from the
\* start of encode
encodeSettledOneTimestamp(r) ==
    \E run \in {runs[r]} :
        /\ run.pc = "encode"
        /\ \E lib \in {compressionLibraries[run.i]} :
           \E encoded \in {Encode(lib.name, run.payload)} :
               IF faults[lib.name] = "encodeThrows" \/ encoded.kind = "error"
               THEN Catch(r, run, "encode")
               ELSE /\ runs' = [runs EXCEPT ![r] =
                           [run EXCEPT !.pc = "decode",
                                       !.encoded = encoded,
                                       !.encodeTime = now - run.startEncode,
                                       !.startDecode = run.startEncode,
                                       !.calls = @ \o << Event("return", "encode", run.i, encoded),
                                                         Event("call", "decode", run.i, encoded) >>]]
                    /\ step' = Step("encodeSettled", "", "")
                    /\ UNCHANGED <<isLoading, bestScore, benchmarkResults>>
        /\ UNCHANGED <<payload, reads, now, faults, env>>

\* await encode(payload) settles
encodeSettled(r) ==
    \E run \in {runs[r]} :
        /\ run.pc = "encode"
        /\ \E lib \in {compressionLibraries[run.i]} :
           \E encoded \in {Encode(lib.name, run.payload)} :
               IF faults[lib.name] = "encodeThrows" \/ encoded.kind = "error"
               THEN Catch(r, run, "encode")
               ELSE /\ runs' = [runs EXCEPT ![r] =
                           [run EXCEPT !.pc = "decode",
                                       !.encoded = encoded,
                                       !.encodeTime = now - run.startEncode,
                                       !.startDecode = now,
                                       !.calls = @ \o << Event("return", "encode", run.i, encoded),
                                                         Event("call", "decode", run.i, encoded) >>]]
                    /\ step' = Step("encodeSettled", "", "")
                    /\ UNCHANGED <<isLoading, bestScore, benchmarkResults>>
        /\ UNCHANGED <<payload, reads, now, faults, env>>

\* the value decode(encoded) yields: the adapter's, or in the scenario
\* where the library loses the content, the empty object that
\* lzStringDecode falls back to
Decoded(name, encoded) ==
    IF faults[name] = "decodeDiffers" THEN JSONParse(EmptyObjectText).value
    ELSE Decode(name, encoded)

\* a loop that takes an output larger than the payload for a failure
decodeSettledRejectsGrowth(r) ==
    \E run \in {runs[r]} :
        /\ run.pc = "decode"
        /\ \E lib \in {compressionLibraries[run.i]} :
           \E decoded \in {Decode(lib.name, run.encoded)} :
               IF \/ faults[lib.name] = "decodeThrows"
                  \/ decoded.kind = "error"
                  \/ getSizeInKB(run.encoded) > getSizeInKB(run.payload)
               THEN Catch(r, run, "decode")
               ELSE \E row \in {PopulatedRow(lib, run.payload, run.encoded,
                                             run.encodeTime, now - run.startDecode)} :
                       /\ step' = Step("decodeSettled", "", "")
                       /\ Continue(r, [run EXCEPT
                              !.results = Append(@, row),
                              !.calls = Append(@, Event("return", "decode", run.i,
                                                        decoded))])
        /\ UNCHANGED <<payload, reads, now, faults, env>>

\* a loop that measures the payload of the current state, not the one its
\* invocation captured
decodeSettledCurrentPayload(r) ==
    \E run \in {runs[r]} :
        /\ run.pc = "decode"
        /\ \E lib \in {compressionLibraries[run.i]} :
           \E decoded \in {Decode(lib.name, run.encoded)} :
               IF faults[lib.name] = "decodeThrows" \/ decoded.kind = "error"
               THEN Catch(r, run, "decode")
               ELSE \E row \in {PopulatedRow(lib, payload, run.encoded,
                                             run.encodeTime, now - run.startDecode)} :
                       /\ step' = Step("decodeSettled", "", "")
                       /\ Continue(r, [run EXCEPT
                              !.results = Append(@, row),
                              !.calls = Append(@, Event("return", "decode", run.i,
                                                        decoded))])
        /\ UNCHANGED <<payload, reads, now, faults, env>>

\* a loop that takes a decoded value other than the payload for a failure
decodeSettledVerifies(r) ==
    \E run \in {runs[r]} :
        /\ run.pc = "decode"
        /\ \E lib \in {compressionLibraries[run.i]} :
           \E decoded \in {Decoded(lib.name, run.encoded)} :
               IF \/ faults[lib.name] = "decodeThrows"
                  \/ decoded.kind = "error"
                  \/ decoded # run.payload
               THEN Catch(r, run, "decode")
               ELSE \E row \in {PopulatedRow(lib, run.payload, run.encoded,
                                             run.encodeTime, now - run.startDecode)} :
                       /\ step' = Step("decodeSettled", "", "")
                       /\ Continue(r, [run EXCEPT
                              !.results = Append(@, row),
                              !.calls = Append(@, Event("return", "decode", run.i,
                                                        decoded))])
        /\ UNCHANGED <<payload, reads, now, faults, env>>

\* await decode(encoded) settles
decodeSettled(r) ==
    \E run \in {runs[r]} :
        /\ run.pc = "decode"
        /\ \E lib \in {compressionLibraries[run.i]} :
           \E decoded \in {Decoded(lib.name, run.encoded)} :
               IF faults[lib.name] = "decodeThrows" \/ decoded.kind = "error"
               THEN Catch(r, run, "decode")
               ELSE \E row \in {PopulatedRow(lib, run.payload, run.encoded,
                                             run.encodeTime, now - run.startDecode)} :
                       /\ step' = Step("decodeSettled", "", "")
                       /\ Continue(r, [run EXCEPT
                              !.results = Append(@, row),
                              !.calls = Append(@, Event("return", "decode", run.i,
                                                        decoded))])
        /\ UNCHANGED <<payload, reads, now, faults, env>>

\* time passes while an adapter call is pending
Tick ==
    /\ now < env.clock
    /\ \E r \in DOMAIN runs : runs[r].pc \in {"encode", "decode"}
    /\ now' = now + 1
    /\ step' = Step("tick", "", "")
    /\ UNCHANGED <<payload, bestScore, benchmarkResults, isLoading, runs, reads,
                   faults, env>>

Next ==
    \/ loadDefaultPayload
    \/ \E file \in env.files : uploadCustomPayload(file)
    \/ \E file \in reads : readerOnload(file)
    \/ resetPayload
    \/ startComparison
    \/ \E r \in DOMAIN runs : afterDelay(r)
    \/ \E r \in DOMAIN runs : encodeSettled(r)
    \/ \E r \in DOMAIN runs : decodeSettled(r)
    \/ Tick

Spec == Init /\ [][Next]_vars

\* the event loop runs the continuation of every await that has settled, and
\* every timer that has expired
RunStep ==
    \E r \in DOMAIN runs : afterDelay(r) \/ encodeSettled(r) \/ decodeSettled(r)

FairSpec == Spec /\ WF_vars(RunStep)

SpecFaults == InitFaults /\ [][Next]_vars

SpecDirect == InitDirect /\ [][Next]_vars

SpecFiles == InitFiles /\ [][Next]_vars

SpecLossy == InitLossy /\ [][Next]_vars

-----------------------------------------------------------------------------
(* Vocabulary of the properties *)

N == Len(compressionLibraries)

\* the payloads a load can produce
LoadedPayloads ==
    {payloadContent}
        \cup { IF EndsWithJson(f) THEN JSONParse(f.text).value ELSE ContentObject(f.text) :
               f \in { g \in Files : EndsWithJson(g) => JSONParse(g.text).ok } }

Faulty(k) == faults[compressionLibraries[k].name] # "ok"

\* row is a row the try block can push for library k and payload p
IsPopulatedRow(row, k, p) ==
    /\ row.encodeTime \in 0..now
    /\ row.decodeTime \in 0..now
    /\ row = PopulatedRow(compressionLibraries[k], p,
                          Encode(compressionLibraries[k].name, p),
                          row.encodeTime, row.decodeTime)

-----------------------------------------------------------------------------
(* The utility functions and the adapters on their own: a specification    *)
(* that applies them to inputs drawn from a bounded set.  The input is     *)
(* held in payload and the last call, with its result, in step.            *)

MaxTail == 2         \* characters of a string after its run of "A"s

\* the bytes TextEncoder gives a code point in UTF-8
UTF8Width(cp) ==
    IF cp < 128 THEN 1 ELSE IF cp < 2048 THEN 2 ELSE IF cp < 65536 THEN 3 ELSE 4

\* new TextEncoder().encode(str).length, for the code points of str
RECURSIVE UTF8Length(_)
UTF8Length(chars) ==
    IF chars = <<>> THEN 0 ELSE UTF8Width(Head(chars)) + UTF8Length(Tail(chars))

\* the UTF-8 length of JSON.stringify(str): the quotes, and a backslash
\* before each quote and backslash
RECURSIVE JSONLength(_)
JSONLength(chars) ==
    IF chars = <<>> THEN 2
    ELSE UTF8Width(Head(chars)) + (IF Head(chars) \in {34, 92} THEN 1 ELSE 0)
             + JSONLength(Tail(chars))

\* the string of the code points chars
StringOf(chars) ==
    [kind |-> "string", id |-> "chars", size |-> UTF8Length(chars),
     jsonSize |-> JSONLength(chars), chars |-> chars]

Repeat(x, n) == [k \in 1..n |-> x]

\* A, the double quote, e with acute accent, the euro sign, an emoji
Alphabet == {65, 34, 233, 8364, 128512}

Strings ==
    { StringOf(Repeat(65, pad) \o tail) :
          pad \in {0, 50}, tail \in UNION { [1..k -> Alphabet] : k \in 0..MaxTail } }

\* a Uint8Array that no adapter produced
RawBytes(n) == Uint8Array("raw", Repeat(0, n), n)

UtilInputs ==
    Strings
        \cup { RawBytes(n) : n \in {0, 51, 52} }
        \cup LoadedPayloads
        \cup { Encode(name, p) : name \in TLibraryName, p \in LoadedPayloads }
        \cup { gzipSync(TextEncode(StringOf(<<65, 65>>))) }

Call(fn, args, result) == [handler |-> fn, args |-> args, result |-> result]

InitUtils ==
    /\ payload \in UtilInputs
    /\ bestScore = NoBestScore
    /\ benchmarkResults = <<>>
    /\ isLoading = FALSE
    /\ runs = <<>>
    /\ reads = {}
    /\ now = 0
    /\ step = Call("none", <<>>, Undefined)
    /\ faults \in FaultScenarios(0)
    /\ env = Env(TRUE, FALSE, {}, 0)

Returned(call) ==
    /\ step' = call
    /\ UNCHANGED <<payload, bestScore, benchmarkResults, isLoading, runs, reads,
                   now, faults, env>>

callGetSizeInKB == Returned(Call("getSizeInKB", <<payload>>, getSizeInKB(payload)))

callGetByteSizeKB ==
    Returned(Call("getByteSizeKB", <<payload>>, getByteSizeKB(payload)))

\* the sizes, the ratio and the reduction that the try block computes for
\* the output `encoded` of library k
callMeasure(k, encoded) ==
    /\ payload.kind # "bytes"
    /\ Returned(Call("measure", <<payload, encoded>>,
                     PopulatedRow(compressionLibraries[k], payload, encoded, 0, 0)))

callEncode(name) ==
    /\ payload.kind # "bytes"
    /\ Returned(Call("encode", <<name, payload>>, Encode(name, payload)))

callDecode(name) ==
    /\ payload.kind = "bytes"
    /\ Returned(Call("decode", <<name, payload>>, Decode(name, payload)))

NextUtils ==
    \/ callGetSizeInKB
    \/ callGetByteSizeKB
    \/ \E k \in DOMAIN compressionLibraries :
          \E encoded \in {Encode(compressionLibraries[k].name, payload), RawBytes(0)} :
              callMeasure(k, encoded)
    \/ \E name \in TLibraryName : callEncode(name)
    \/ \E name \in TLibraryName : callDecode(name)

SpecUtils == InitUtils /\ [][NextUtils]_vars

-----------------------------------------------------------------------------
(* C1: the results committed by a run hold exactly one row per library of  *)
(* compressionLibraries, in its order, whichever adapters raise.           *)
C1_OneRowPerLibrary ==
    benchmarkResults # <<>> =>
        /\ Len(benchmarkResults) = N
        /\ \A k \in 1..N :
              /\ benchmarkResults[k].name = compressionLibraries[k].name
              /\ benchmarkResults[k].link = compressionLibraries[k].link

\* a run was committed in which all five adapters raised, some in encode and
\* some in decode
C1_Witness ==
    /\ benchmarkResults # <<>>
    /\ \A k \in 1..N : Faulty(k)
    /\ faults["FFLATE"] = "encodeThrows"
    /\ faults["Pako"] = "decodeThrows"

(* C2: the row of an adapter that raised has "0 KB" sizes and zero numbers *)
(* and the adapter's name is logged by the step that pushes it; the loop   *)
(* goes on to the next library; the rows of the other adapters are the     *)
(* populated rows of the run's payload, whatever the other adapters did.   *)
IsFailureRow(row) ==
    /\ row.originalSize = [tenths |-> 0, decimals |-> 0, unit |-> "KB"]
    /\ row.compressedSize = [tenths |-> 0, decimals |-> 0, unit |-> "KB"]
    /\ row.encodeTime = 0
    /\ row.decodeTime = 0
    /\ row.totalTime = 0
    /\ row.compressionRatio = [num |-> 0, den |-> 1]
    /\ row.sizeReduction = [num |-> 0, den |-> 1]

\* the rows pushed so far for payload p are as the claim says
RowsAsClaimed(rows, p) ==
    \A k \in 1..Len(rows) :
        IF Faulty(k) THEN IsFailureRow(rows[k]) ELSE IsPopulatedRow(rows[k], k, p)

\* the state after the settling of a call pushed the row of library k
JustPushed(k) ==
    /\ step.handler \in {"encodeSettled", "decodeSettled"}
    /\ IF k = N THEN runs = <<>>
       ELSE /\ Len(runs) = 1
            /\ runs[1].pc = "encode"
            /\ runs[1].i = k + 1

C2_FailedAdapterRow ==
    /\ benchmarkResults # <<>> =>
          \E p \in LoadedPayloads : RowsAsClaimed(benchmarkResults, p)
    /\ \A r \in DOMAIN runs :
          /\ RowsAsClaimed(runs[r].results, runs[r].payload)
          /\ Len(runs[r].results) = runs[r].i - 1 \/ runs[r].pc = "delay"
    /\ \A k \in 1..N : JustPushed(k) =>
          step.error = (IF Faulty(k) THEN compressionLibraries[k].name ELSE "")
    /\ step.error # "" => \E k \in 1..N : JustPushed(k)

\* one adapter raised in decode, the others did not, and the run was committed
C2_Witness ==
    /\ benchmarkResults # <<>>
    /\ faults["LZString"] = "decodeThrows"
    /\ \A k \in 1..N : k # 3 => ~Faulty(k)
    /\ benchmarkResults[3] = ZeroRow(compressionLibraries[3])
    /\ step.error = "MessagePack" \/ step.error = ""

(* C3: startComparison called with no payload shows the no-payload notice, *)
(* starts no run (so calls no adapter) and leaves payload, results, best   *)
(* score and the loading flag as they were.                                *)
C3_NoPayloadRejected ==
    [][ step'.handler = "startComparison" /\ Falsy(payload) =>
            /\ step'.alert = "Please load a payload first."
            /\ UNCHANGED <<payload, benchmarkResults, bestScore, isLoading, runs>> ]_vars

\* startComparison was called with no payload and showed the notice
C3_Witness ==
    /\ step.handler = "startComparison"
    /\ step.alert = "Please load a payload first."
    /\ Falsy(payload)

(* C4: after resetPayload the payload is absent and the results are empty; *)
(* the payload stays absent until a load; startComparison called while it  *)
(* is absent is rejected with the no-payload notice.                       *)
C4_AfterReset ==
    step.handler = "resetPayload" => payload = Undefined /\ benchmarkResults = <<>>

C4_AbsentUntilLoad ==
    payload = Undefined /\ step'.handler \notin {"loadDefaultPayload", "readerOnload"}
        => payload' = Undefined

C4_RejectedWhileAbsent ==
    payload = Undefined /\ step'.handler = "startComparison" =>
        /\ step'.alert = "Please load a payload first."
        /\ UNCHANGED <<runs, isLoading, payload, benchmarkResults>>

C4_ResetThenRejected ==
    /\ [] C4_AfterReset
    /\ [][C4_AbsentUntilLoad]_vars
    /\ [][C4_RejectedWhileAbsent]_vars

\* a run was committed, reset emptied payload and results, and the next
\* startComparison was rejected
C4_Witness ==
    /\ step.handler = "startComparison"
    /\ step.alert = "Please load a payload first."
    /\ bestScore # NoBestScore
    /\ benchmarkResults = <<>>
    /\ payload = Undefined
    /\ runs = <<>>

(* C5: in every reachable state the application is Empty, Loaded,          *)
(* Benchmarking or Loaded with results; in particular the results are      *)
(* never non-empty while no payload is loaded.                             *)
C5_ResultsOnlyWithPayload ==
    Falsy(payload) => benchmarkResults = <<>>

(* C6: a load that changes the payload while results exist clears them.    *)
C6_LoadClearsResults ==
    [][ /\ step'.handler \in {"loadDefaultPayload", "readerOnload"}
        /\ payload' # payload
        /\ benchmarkResults # <<>>
        => benchmarkResults' = <<>> ]_vars

(* C7: at most one run is in progress; while it is, the loading flag is    *)
(* set (so the Start button is disabled), also after a reset or a load     *)
(* during the run; a run is entered only with a payload.                   *)
C7_AtMostOneRun ==
    /\ Len(runs) <= 1
    /\ \A r \in DOMAIN runs :
          /\ isLoading
          /\ ~Falsy(runs[r].payload)

\* a run is in the middle of its loop and the payload was replaced meanwhile
C7_Witness ==
    /\ Len(runs) = 1
    /\ runs[1].pc = "decode"
    /\ ~Falsy(payload)
    /\ payload # runs[1].payload

(* C8: within a run the adapter calls are sequential: a call is settled    *)
(* before the next one is made; decode of library i is called right after  *)
(* encode of library i returned, with the value it returned, and is not    *)
(* called when encode raised; encode of library i+1 is called only after   *)
(* the calls of library i returned or raised, with the run's payload.      *)
SequentialCalls(run) ==
    LET c == run.calls
    IN  \A j \in 1..Len(c) :
          /\ c[j].ev = "call" /\ c[j].op = "encode" =>
                /\ c[j].arg = run.payload
                /\ IF c[j].i = 1 THEN j = 1
                   ELSE /\ j > 1
                        /\ c[j-1].i = c[j].i - 1
                        /\ \/ c[j-1].ev = "throw"
                           \/ c[j-1].ev = "return" /\ c[j-1].op = "decode"
          /\ c[j].ev = "call" /\ c[j].op = "decode" =>
                /\ j > 1
                /\ c[j-1].ev = "return"
                /\ c[j-1].op = "encode"
                /\ c[j-1].i = c[j].i
                /\ c[j-1].arg = c[j].arg
          /\ c[j].ev \in {"return", "throw"} =>
                /\ j > 1
                /\ c[j-1].ev = "call"
                /\ c[j-1].op = c[j].op
                /\ c[j-1].i = c[j].i
          /\ c[j].ev = "throw" /\ c[j].op = "encode" =>
                \A m \in 1..Len(c) : ~(c[m].op = "decode" /\ c[m].i = c[j].i)

C8_SequentialAdapterCalls ==
    \A r \in DOMAIN runs : SequentialCalls(runs[r])

\* a decode is pending in a run in which an earlier adapter's encode raised
\* and another adapter's decode returned
C8_Witness ==
    \E r \in DOMAIN runs :
        /\ runs[r].pc = "decode"
        /\ \E j \in DOMAIN runs[r].calls :
              runs[r].calls[j].ev = "throw" /\ runs[r].calls[j].op = "encode"
        /\ \E j \in DOMAIN runs[r].calls :
              runs[r].calls[j].ev = "return" /\ runs[r].calls[j].op = "decode"

(* C9: a run that has started completes: the results and the best score    *)
(* are committed and the loading flag is cleared; a run ends in no other   *)
(* way, whatever resets, loads and adapter failures happen meanwhile.      *)
C9_Committed ==
    /\ ~isLoading
    /\ Len(benchmarkResults) = N
    /\ bestScore # NoBestScore

C9_RunCompletes ==
    /\ isLoading ~> C9_Committed
    /\ [][Len(runs') < Len(runs) => C9_Committed']_vars

\* a run was committed although the payload was reset while it ran and an
\* adapter raised
C9_Witness ==
    /\ ~isLoading
    /\ Len(benchmarkResults) = N
    /\ Falsy(payload)
    /\ \E k \in 1..N : Faulty(k)

(* C10: after a run the best score's encodeTime, decodeTime and totalTime  *)
(* are the minima of those fields over the results and its compression     *)
(* ratio is the maximum, each on its own; the zero rows of failed adapters *)
(* take part, so the best times are 0 when an adapter failed.              *)
IsMin(x, S) == x \in S /\ \A y \in S : x <= y

Column(field) == { benchmarkResults[k][field] : k \in DOMAIN benchmarkResults }

C10_BestScoreFold ==
    benchmarkResults # <<>> =>
        /\ IsMin(bestScore.encodeTime, Column("encodeTime"))
        /\ IsMin(bestScore.decodeTime, Column("decodeTime"))
        /\ IsMin(bestScore.totalTime, Column("totalTime"))
        /\ bestScore.compressionRatio \in Column("compressionRatio")
        /\ \A x \in Column("compressionRatio") :
              x.num * bestScore.compressionRatio.den
                  <= bestScore.compressionRatio.num * x.den
        /\ (\E k \in DOMAIN benchmarkResults : IsFailureRow(benchmarkResults[k])) =>
              /\ bestScore.encodeTime = 0
              /\ bestScore.decodeTime = 0
              /\ bestScore.totalTime = 0

\* no adapter failed, and the row of the best compression ratio is neither
\* the fastest to encode nor the fastest in total, while another row is
C10_Witness ==
    /\ benchmarkResults # <<>>
    /\ \A k \in 1..N : ~Faulty(k)
    /\ \E k \in DOMAIN benchmarkResults :
          /\ benchmarkResults[k].compressionRatio = bestScore.compressionRatio
          /\ benchmarkResults[k].encodeTime > bestScore.encodeTime
          /\ benchmarkResults[k].totalTime > bestScore.totalTime

(* C11: after a run the best score's sizeReduction is the maximum of the   *)
(* rows' sizeReduction, and every field of the best score is the value of  *)
(* that field in at least one row (no field keeps its seed), so that every *)
(* column has a highlighted row, also when every adapter's output is       *)
(* larger than the payload.                                                *)
C11_NoSeedLeft ==
    benchmarkResults # <<>> =>
        /\ \A x \in Column("sizeReduction") :
              ~FracLess(bestScore.sizeReduction, x)
        /\ \A field \in {"compressedSize", "encodeTime", "decodeTime", "totalTime",
                          "compressionRatio", "sizeReduction"} :
              bestScore[field] \in Column(field)

(* C12: after a run the best score's compressedSize is the compressedSize  *)
(* of a row whose compressed byte count is the least of all rows, also     *)
(* when some rows are shown in KB and others in MB.                        *)
CompressedBytes(k, p) ==
    IF Faulty(k) THEN 0
    ELSE getSizeInKB(Encode(compressionLibraries[k].name, p))

C12_SmallestCompressed ==
    benchmarkResults # <<>> =>
        \E p \in LoadedPayloads :
            /\ RowsAsClaimed(benchmarkResults, p)
            /\ \E k \in 1..N :
                  /\ bestScore.compressedSize = benchmarkResults[k].compressedSize
                  /\ \A j \in 1..N : CompressedBytes(k, p) <= CompressedBytes(j, p)

(* C13: the step that completes a run commits the rows that run computed   *)
(* and the fold of those rows, whatever was committed before; in every     *)
(* state with results the best score is the fold of exactly those results. *)
C13_FoldOfResults ==
    benchmarkResults # <<>> => bestScore = NewBestScore(benchmarkResults)

\* row is the row of library k computed from payload p
RowOf(row, k, p) ==
    IF Faulty(k) THEN IsFailureRow(row)
    ELSE row = PopulatedRow(compressionLibraries[k], p,
                            Encode(compressionLibraries[k].name, p),
                            row.encodeTime, row.decodeTime)

C13_CommitOfTheRun ==
    Len(runs') < Len(runs) =>
        \E r \in DOMAIN runs :
            /\ runs' = Remove(runs, r)
            /\ Len(benchmarkResults') = N
            /\ SubSeq(benchmarkResults', 1, N - 1) = runs[r].results
            /\ RowOf(benchmarkResults'[N], N, runs[r].payload)
            /\ bestScore' = NewBestScore(benchmarkResults')

C13_CommitReplaces ==
    /\ [] C13_FoldOfResults
    /\ [][C13_CommitOfTheRun]_vars

\* a run was just committed in which the clock did not move, after the clock
\* had moved: an earlier run, with other times, was committed before it
C13_Witness ==
    /\ step.handler = "decodeSettled"
    /\ runs = <<>>
    /\ now > 0
    /\ benchmarkResults # <<>>
    /\ bestScore = NewBestScore(benchmarkResults)
    /\ \A k \in DOMAIN benchmarkResults : benchmarkResults[k].totalTime = 0

(* C14: the best score exists only together with the results of a          *)
(* completed run: whenever the results are empty (before the first run,    *)
(* after a reset) the best score is absent.                                *)
C14_NoBestScoreWithoutResults ==
    benchmarkResults = <<>> => bestScore = NoBestScore

(* C15: when a selected file has been read, the payload is the JSON value  *)
(* of its text if the file's name ends in ".json" (and the text parses),   *)
(* and otherwise the object { content: text }, also when the text is valid *)
(* JSON; notes.txt with text hello world gives { content: "hello world" }. *)
ParsedAsClaimed(text) ==
    CASE text.id = "{\"a\":1,\"b\":[1,2,3]}" ->
            [kind |-> "object", id |-> "{\"a\":1,\"b\":[1,2,3]}", size |-> 0, jsonSize |-> 19]
      [] text.id = "null" ->
            [kind |-> "null", id |-> "null", size |-> 0, jsonSize |-> 4]
      [] text.id = "\"a\"" ->
            [kind |-> "string", id |-> "a", size |-> 1, jsonSize |-> 3]
      [] text.id = "{}" ->
            [kind |-> "object", id |-> "{}", size |-> 0, jsonSize |-> 2]

ParsesAsClaimed(text) ==
    text.id \in {"{\"a\":1,\"b\":[1,2,3]}", "null", "\"a\"", "{}"}

WrappedAsClaimed(text) ==
    [kind |-> "object", id |-> "{content:" \o text.id \o "}", size |-> 0,
     jsonSize |-> 14 + text.size + text.escapes]

C15_PayloadOfFile ==
    [][ step'.handler = "readerOnload" =>
            \E file \in reads \ reads' :
                IF file.suffix = ".json"
                THEN ParsesAsClaimed(file.text) => payload' = ParsedAsClaimed(file.text)
                ELSE payload' = WrappedAsClaimed(file.text) ]_vars

\* data.txt, whose text is valid JSON, was read
C15_Witness ==
    /\ step.handler = "readerOnload"
    /\ payload.kind = "object"
    /\ payload.id = "{content:{\"a\":1,\"b\":[1,2,3]}}"
    /\ payload.jsonSize = 37

(* C16: when the text of a ".json" file does not parse, the user is shown  *)
(* the parse-error notice and the payload, the results, the best score and *)
(* the loading flag stay as they were.                                     *)
C16_ParseFailureKeepsState ==
    [][ /\ step'.handler = "readerOnload"
        /\ \E file \in reads \ reads' :
              file.suffix = ".json" /\ ~ParsesAsClaimed(file.text)
        => /\ step'.alert = "Error parsing JSON file. Please ensure it is valid JSON."
           /\ UNCHANGED <<payload, benchmarkResults, bestScore, isLoading>> ]_vars

\* the parse of a file failed while a payload was loaded and results of a
\* run were shown
C16_Witness ==
    /\ step.handler = "readerOnload"
    /\ step.alert = "Error parsing JSON file. Please ensure it is valid JSON."
    /\ ~Falsy(payload)
    /\ benchmarkResults # <<>>

GrowthRow(row, o, c) ==
    c > o =>
        /\ row.encodeTime >= 0
        /\ row.decodeTime >= 0
        /\ row.totalTime = row.encodeTime + row.decodeTime
        /\ row.originalSize.decimals = 1
        /\ row.compressedSize.decimals = 1
        /\ row.compressedSize.unit \in {"KB", "MB"}
        /\ row.compressionRatio.num * c = row.compressionRatio.den * o
        /\ row.compressionRatio.num < row.compressionRatio.den
        /\ row.sizeReduction.num * o = 100 * (o - c) * row.sizeReduction.den
        /\ row.sizeReduction.num < 0
        /\ ~IsFailureRow(row)

C18_GrowthIsNoFailure ==
    [][ Len(runs') < Len(runs) =>
            \E r \in DOMAIN runs :
                /\ runs' = Remove(runs, r)
                /\ Len(benchmarkResults') = N
                /\ \A k \in 1..N : ~Faulty(k) =>
                      GrowthRow(benchmarkResults'[k],
                                getSizeInKB(runs[r].payload),
                                CompressedBytes(k, runs[r].payload)) ]_vars

\* a run was committed in which every adapter's output was larger than the
\* payload
C18_Witness ==
    /\ Len(benchmarkResults) = N
    /\ \A k \in 1..N :
          /\ benchmarkResults[k].sizeReduction.num < 0
          /\ benchmarkResults[k].compressionRatio.num > 0

(* C19: in every state the Start button is enabled exactly when a payload  *)
(* is loaded and no run is in progress; the loading flag is set exactly    *)
(* while a run is in flight, so the button is disabled with no payload and *)
(* during a run.                                                           *)
C19_StartEnabledIff ==
    /\ isLoading <=> runs # <<>>
    /\ ~StartDisabled <=> (~Falsy(payload) /\ runs = <<>>)
    /\ Falsy(payload) => StartDisabled
    /\ runs # <<>> => StartDisabled

\* a second run is in flight, with a payload loaded and the results of the
\* first run shown
C19_Witness ==
    /\ Len(runs) = 1
    /\ runs[1].pc = "encode"
    /\ isLoading
    /\ ~Falsy(payload)
    /\ benchmarkResults # <<>>
    /\ StartDisabled

(* C20: a size x in KB is formatted with exactly one decimal digit, in KB  *)
(* when x < 1024 and in MB, as x / 1024, when x >= 1024; here for every    *)
(* size the application formats, given in bytes (x = bytes / 1024).        *)
FormattedAsClaimed(str, bytes) ==
    /\ str.decimals = 1
    /\ bytes < 1024 * 1024 =>
          /\ str.unit = "KB"
          /\ 2 * Abs(10 * bytes - str.tenths * 1024) <= 1024
    /\ bytes >= 1024 * 1024 =>
          /\ str.unit = "MB"
          /\ 2 * Abs(10 * bytes - str.tenths * 1024 * 1024) <= 1024 * 1024

C20_FormatSize ==
    \A r \in DOMAIN runs :
        /\ FormattedAsClaimed(getByteSizeKB(runs[r].payload),
                              getSizeInKB(runs[r].payload))
        /\ runs[r].pc = "decode" =>
              FormattedAsClaimed(getByteSizeKB(runs[r].encoded), runs[r].encoded.size)
        /\ \A k \in DOMAIN runs[r].results :
              /\ FormattedAsClaimed(runs[r].results[k].originalSize,
                                    getSizeInKB(runs[r].payload))
              /\ FormattedAsClaimed(runs[r].results[k].compressedSize,
                                    CompressedBytes(k, runs[r].payload))

\* a run waits for the decode of an output of exactly 1024 KB, and has
\* pushed rows of less than 1024 KB
C20_Witness ==
    \E r \in DOMAIN runs :
        /\ runs[r].pc = "decode"
        /\ runs[r].encoded.size = 1024 * 1024
        /\ getByteSizeKB(runs[r].encoded).unit = "MB"
        /\ runs[r].results # <<>>
        /\ runs[r].results[1].compressedSize.unit = "KB"

ByteSizeAsClaimed(v) ==
    CASE v.kind = "bytes" -> IF v.id = "raw" THEN Len(v.data) ELSE v.size
      [] v.kind = "string" /\ "chars" \in DOMAIN v ->
            IF \A k \in DOMAIN v.chars : v.chars[k] < 128 THEN Len(v.chars)
            ELSE Len(v.chars)
                   + Cardinality({ k \in DOMAIN v.chars : v.chars[k] >= 128 })
                   + Cardinality({ k \in DOMAIN v.chars : v.chars[k] >= 2048 })
                   + Cardinality({ k \in DOMAIN v.chars : v.chars[k] >= 65536 })
      [] v.kind = "string" /\ "chars" \notin DOMAIN v -> v.size
      [] OTHER -> v.jsonSize

C22_ByteSize ==
    /\ step.handler = "getSizeInKB" =>
          /\ step.result \in Nat
          /\ step.result = ByteSizeAsClaimed(step.args[1])
    /\ step.handler = "getByteSizeKB" =>
          FormattedAsClaimed(step.result, ByteSizeAsClaimed(step.args[1]))

\* the size was shown of a string of 51 characters, one of them not ASCII,
\* which is 52 bytes long
C22_Witness ==
    /\ step.handler = "getByteSizeKB"
    /\ step.args[1].kind = "string"
    /\ "chars" \in DOMAIN step.args[1]
    /\ Len(step.args[1].chars) = 51
    /\ step.args[1].chars[51] = 233
    /\ step.result = [tenths |-> 1, decimals |-> 1, unit |-> "KB"]

(* C23: a run does not modify the payload: only a load or a reset changes  *)
(* the payload of the application, and every encode call of a run receives *)
(* the payload that was present when the run started, whatever was loaded  *)
(* or reset since.                                                         *)
EncodeArgs(run) ==
    { run.calls[j].arg : j \in { m \in DOMAIN run.calls :
          run.calls[m].ev = "call" /\ run.calls[m].op = "encode" } }

C23_OnlyLoadsChangePayload ==
    step'.handler \notin {"loadDefaultPayload", "readerOnload", "resetPayload"}
        => payload' = payload

C23_RunKeepsItsPayload ==
    /\ Len(runs') > Len(runs) => runs'[Len(runs')].payload = payload
    /\ \A r \in DOMAIN runs : Len(runs') = Len(runs) =>
          /\ runs'[r].payload = runs[r].payload
          /\ EncodeArgs(runs'[r]) \subseteq {runs[r].payload}

C23_PayloadNotModified ==
    /\ [][C23_OnlyLoadsChangePayload]_vars
    /\ [][C23_RunKeepsItsPayload]_vars

\* a run has called the encode of three adapters, and the payload was reset
\* since the run started
C23_Witness ==
    /\ Len(runs) = 1
    /\ runs[1].pc = "encode"
    /\ runs[1].i = 3
    /\ payload = Undefined
    /\ Cardinality({ j \in DOMAIN runs[1].calls :
           /\ runs[1].calls[j].ev = "call"
           /\ runs[1].calls[j].op = "encode"
           /\ runs[1].calls[j].arg = runs[1].payload }) = 3

(* C24: no adapter catches an error of its library call: when the          *)
(* library's decompress/decode call raises for the bytes given, or the     *)
(* JSON parsing inside decode raises for the text decompressed, the        *)
(* adapter's call ends with that error.                                    *)
LibraryDecodeRaises(name, data) ==
    CASE name = "FFLATE" -> gunzipSync(data).kind = "error"
      [] name = "Pako" -> ungzipToString(data).kind = "error"
      [] name = "LZString" -> decompressFromUint8Array(data).kind = "error"
      [] name = "CBOR" -> decodeCbor(data).kind = "error"
      [] name = "MessagePack" -> decodeMsgPack(data).kind = "error"

\* the text an adapter's decode hands to JSON.parse (none for the binary
\* serializers)
ParsedText(name, data) ==
    CASE name = "FFLATE" -> TextDecode(gunzipSync(data))
      [] name = "Pako" -> ungzipToString(data)
      [] name = "LZString" ->
            IF decompressFromUint8Array(data).size = 0
            THEN [kind |-> "string", id |-> "JSON"]
            ELSE decompressFromUint8Array(data)
      [] OTHER -> [kind |-> "string", id |-> "JSON"]

TimesAsClaimed(rows) ==
    \A k \in DOMAIN rows : ~IsFailureRow(rows[k]) =>
        /\ rows[k].encodeTime >= 0
        /\ rows[k].decodeTime >= 0
        /\ rows[k].totalTime = rows[k].encodeTime + rows[k].decodeTime

C25_Timing ==
    /\ TimesAsClaimed(benchmarkResults)
    /\ \A r \in DOMAIN runs :
          /\ TimesAsClaimed(runs[r].results)
          /\ runs[r].pc = "decode" =>
                /\ runs[r].encodeTime >= 0
                /\ runs[r].startEncode + runs[r].encodeTime <= runs[r].startDecode
                /\ runs[r].startDecode <= now

\* the encode of the second adapter took a tick, its decode is being timed,
\* and the row of the first adapter is pushed
C25_Witness ==
    /\ Len(runs) = 1
    /\ runs[1].pc = "decode"
    /\ runs[1].i = 2
    /\ runs[1].encodeTime = 1
    /\ runs[1].startDecode = 1
    /\ Len(runs[1].results) = 1
    /\ ~IsFailureRow(runs[1].results[1])

(* C26: the rows a run commits are computed from the payload that was      *)
(* current when the run started: the run keeps that payload whatever is    *)
(* loaded or reset meanwhile, every row it pushes (its original size       *)
(* included) is the row of that payload, and the step that ends the run    *)
(* commits those rows, whatever the payload of the application is then.    *)
C26_Captured ==
    /\ Len(runs') > Len(runs) =>
          /\ runs'[Len(runs')].payload = payload
          /\ runs'[Len(runs')].results = <<>>
    /\ Len(runs') = Len(runs) =>
          \A r \in DOMAIN runs :
              /\ runs'[r].payload = runs[r].payload
              /\ \A k \in DOMAIN runs'[r].results :
                    /\ RowOf(runs'[r].results[k], k, runs[r].payload)
                    /\ ~Faulty(k) =>
                          runs'[r].results[k].originalSize =
                              getFormattedSize(getSizeInKB(runs[r].payload))
    /\ Len(runs') < Len(runs) =>
          \E r \in DOMAIN runs :
              /\ runs' = Remove(runs, r)
              /\ Len(benchmarkResults') = N
              /\ \A k \in 1..N : RowOf(benchmarkResults'[k], k, runs[r].payload)

C26_RunUsesCapturedPayload == [][C26_Captured]_vars

\* a run started on the built-in sample was just committed, and the payload
\* is now the content of notes.txt
C26_Witness ==
    /\ step.handler = "decodeSettled"
    /\ runs = <<>>
    /\ payload.id = "{content:hello world}"
    /\ Len(benchmarkResults) = N
    /\ \E k \in 1..N :
          benchmarkResults[k].originalSize = [tenths |-> 13, decimals |-> 1, unit |-> "MB"]

(* C27: the row of an adapter is the zero-valued failure row exactly when  *)
(* an error was raised in that adapter's encode or decode; the decoded     *)
(* value is not compared with the payload, so an adapter whose decode      *)
(* returns another value without raising gets a fully populated row.       *)
Threw(run, k) ==
    \E j \in DOMAIN run.calls : run.calls[j].ev = "throw" /\ run.calls[j].i = k

ReturnedAnotherValue(run, k) ==
    \E j \in DOMAIN run.calls :
        /\ run.calls[j].ev = "return"
        /\ run.calls[j].op = "decode"
        /\ run.calls[j].i = k
        /\ run.calls[j].arg # run.payload

C27_FailureRowIffError ==
    /\ \A r \in DOMAIN runs : \A k \in DOMAIN runs[r].results :
          /\ IsFailureRow(runs[r].results[k]) <=> Threw(runs[r], k)
          /\ ~Threw(runs[r], k) =>
                runs[r].results[k] =
                    PopulatedRow(compressionLibraries[k], runs[r].payload,
                                 Encode(compressionLibraries[k].name, runs[r].payload),
                                 runs[r].results[k].encodeTime,
                                 runs[r].results[k].decodeTime)
          /\ Threw(runs[r], k) <=>
                faults[compressionLibraries[k].name] \in {"encodeThrows", "decodeThrows"}
    /\ \A k \in DOMAIN benchmarkResults :
          IsFailureRow(benchmarkResults[k]) <=>
              faults[compressionLibraries[k].name] \in {"encodeThrows", "decodeThrows"}

\* the decode of LZString returned the empty object for another payload,
\* raising nothing, and its row is populated; the decode of Pako raised
C27_Witness ==
    \E r \in DOMAIN runs :
        /\ runs[r].i = 4
        /\ ReturnedAnotherValue(runs[r], 3)
        /\ ~Threw(runs[r], 3)
        /\ ~IsFailureRow(runs[r].results[3])
        /\ runs[r].results[3].compressionRatio.num > 0
        /\ Threw(runs[r], 2)
        /\ IsFailureRow(runs[r].results[2])

(* C28: after a ".json" file was parsed without error a payload is         *)
(* loaded, whatever JSON value the file holds (null included): the Reset   *)
(* button is enabled, and so is the Start button unless a run is in        *)
(* progress.                                                               *)
C28_ParsedFileIsLoaded ==
    step.handler = "readerOnload" /\ step.alert = "" =>
        /\ ~ResetDisabled
        /\ isLoading \/ ~StartDisabled

(* C29: a reset or a load of the default payload does not cancel a file    *)
(* read in progress: the read stays pending, and when it completes after   *)
(* such an event the payload becomes the file's content (parsed for a      *)
(* ".json" file whose text parses, wrapped otherwise), so the payload is   *)
(* that of the last load completed.                                        *)
C29_StaysPending ==
    step'.handler # "readerOnload" => reads \subseteq reads'

C29_CompletionSetsPayload ==
    /\ step.handler \in {"resetPayload", "loadDefaultPayload"}
    /\ step'.handler = "readerOnload"
    => \E file \in reads \ reads' :
           IF file.suffix = ".json"
           THEN IF ParsesAsClaimed(file.text)
                THEN payload' = ParsedAsClaimed(file.text)
                ELSE payload' = payload
           ELSE payload' = WrappedAsClaimed(file.text)

C29_ReadNotCancelled ==
    /\ [][C29_StaysPending]_vars
    /\ [][C29_CompletionSetsPayload]_vars

\* the payload was reset while notes.txt was being read, after a run on
\* another payload: the read is still pending
C29_Witness ==
    /\ step.handler = "resetPayload"
    /\ payload = Undefined
    /\ reads = {[stem |-> "notes", suffix |-> ".txt",
                 text |-> [id |-> "hello world", size |-> 11, escapes |-> 0]]}
    /\ bestScore # NoBestScore

====
